---- MODULE Spec2Model ----
(***************************************************************************)
(* Model of dpipe.batch_iter.pipeline.Infinite: a source, one-to-one       *)
(* transformer stages, the Combiner stage and the final combine stage,     *)
(* connected by bounded queues and driven by background workers, together  *)
(* with the caller that constructs, calls, iterates, closes and finalizes  *)
(* the instance; and of the functions called on their own: get_boxes,      *)
(* divide and combine of dpipe.medim.grid, patches_grid of                 *)
(* dpipe.predict.shape, and combine_batches.                               *)
(***************************************************************************)
EXTENDS Integers, Sequences, FiniteSets, TLC

VARIABLES
    obj,              \* lifecycle of the Infinite object: new / ok / failed / finalized
    ctorError,        \* exception raised by __init__: none / ValueError / TypeError
    batch_size,       \* the batch_size argument: [type, val]
    batches_per_epoch,\* the batches_per_epoch argument
    pipeline_active,  \* self.pipeline.pipeline_active
    stop_event,       \* the stop event shared by the workers of the current run
    q,                \* q[s]: output queue of stage s
    wpc,              \* wpc[w]: position of worker w: none / get / put / exited
    held,             \* held[w]: the value worker w took and has not yet passed on
    srcNext,          \* position of the source iterator in the source stream
    chunk,            \* the Combiner's in-progress chunk
    processed,        \* items whose process_data call completed in this run
    emitted,          \* chunks the Combiner put downstream in this run
    shouldAddCalls,   \* length of the chunk at each call of should_add in this run
    epochs,           \* the epoch iterators handed out by __call__
    yielded,          \* batches received by the consumer since the pipeline was entered
    callerPc,         \* the caller: idle / join (inside Pipeline.__exit__)
    enterCount,       \* number of times the pipeline was entered
    startedWorkers,   \* number of workers ever started
    closeRaised,      \* whether a close() call raised
    fn,               \* the library function being called outside the pipeline, or none
    fnArgs,           \* its arguments
    fnResult          \* what it returned or raised

vars == <<obj, ctorError, batch_size, batches_per_epoch, pipeline_active, stop_event,
          q, wpc, held, srcNext, chunk, processed, emitted, shouldAddCalls, epochs, yielded,
          callerPc, enterCount, startedWorkers, closeRaised, fn, fnArgs, fnResult>>

\* The state of a direct call of a function of dpipe.medim.grid, dpipe.predict.shape
\* or of combine_batches
fnVars == <<fn, fnArgs, fnResult>>

----------------------------------------------------------------------------
\* Bounds of the model

MaxItems == 7        \* the source stream is cut after this many items
MaxBatchSize == 3    \* largest integer batch_size tried
MaxBpe == 2          \* the positive batches_per_epoch tried
MaxCalls == 2        \* number of __call__ invocations explored

\* buffer_size: int = 3, the default of __init__
buffer_size == 3

None == <<>>

RECURSIVE Concat(_)
Concat(ss) == IF ss = <<>> THEN <<>> ELSE Head(ss) \o Concat(Tail(ss))

Min(a, b) == IF a <= b THEN a ELSE b
Max(a, b) == IF a >= b THEN a ELSE b

----------------------------------------------------------------------------
\* The assembled pipeline: Source -> transformer -> Combiner -> final combine

SourceStage == 1
TransformStage == 2
CombinerStage == 3
FinalStage == 4
Stages == SourceStage..FinalStage

\* A Combiner started with two workers
CombinerWorkersTwo == 1 + 1

\* ComponentDescription(start_combiner, 1, 1): one worker, buffer of one
CombinerWorkers == 1
CombinerBuffer == 1

\* One2One / Source built by __init__ pass buffer_size only: a single worker each
DefaultWorkers == 1

NWorkers(s) == IF s = CombinerStage THEN CombinerWorkers ELSE DefaultWorkers

\* Queues created without a maximum size
CapacityNoLimit(s) == 1 + MaxItems

\* Capacity of the output queue of stage s
Capacity(s) == IF s = CombinerStage THEN CombinerBuffer ELSE buffer_size

Workers == {w \in Stages \X (1..(CombinerWorkers + DefaultWorkers)) : w[2] <= NWorkers(w[1])}
WorkersOf(s) == {w \in Workers : w[1] = s}

----------------------------------------------------------------------------
\* Items and the functions applied by the stages

\* The n-th item of the source stream: its position and the number of
\* transformers applied to it so far
SourceItem(n) == <<n, 0>>

\* The user's transformer: one item in, one item out
Transform(item) == <<item[1], item[2] + 1>>

\* Length of the shortest of the sequences args (args is not empty)
MinLen(args) ==
    CHOOSE n \in {Len(args[i]) : i \in 1..Len(args)} :
        \A i \in 1..Len(args) : n <= Len(args[i])

\* The tuples formed until the first of the iterators is exhausted
ZipPairs(args) == [j \in 1..MinLen(args) |-> [i \in 1..Len(args) |-> args[i][j]]]

\* The builtin zip(*args)
Zip(args) == IF args = <<>> THEN <<>> ELSE ZipPairs(args)

\* zip_equal built on the builtin zip: no argument is ever reported
ZipEqualNeverRaises(args) == FALSE

\* zip_equal(*args) raises ValueError: the sized arguments differ in length, or
\* the iterators do not exhaust in the same round
ZipEqualRaises(args) ==
    /\ args # <<>>
    /\ \E i \in 1..Len(args) : Len(args[i]) # Len(args[1])

\* zip_equal(*args), consumed into a tuple
ZipEqual(args) ==
    IF args = <<>> THEN <<>>
    ELSE IF ZipEqualRaises(args) THEN "ValueError"
    ELSE ZipPairs(args)

combine_batches(inputs) == ZipEqual(inputs)

\* np.array over each position of the batch keeps the sequence and its length
combine_to_arrays(inputs) == combine_batches(inputs)

StageFn(s, x) == IF s = FinalStage THEN combine_to_arrays(x) ELSE Transform(x)

\* A caller-supplied predicate over a non-empty chunk: the item extends the
\* chunk when it falls in the same group of the stream as the chunk's first item
UserShouldAdd(c, item, period) == item[1] \div period = c[1][1] \div period

\* should_add with `len(chunk) <= batch_size` for an integer batch_size
should_add_off_by_one(c, item) ==
    IF batch_size.type = "callable" THEN UserShouldAdd(c, item, batch_size.val)
    ELSE Len(c) <= batch_size.val

\* should_add as selected by _make_combiner
should_add(c, item) ==
    IF batch_size.type = "callable" THEN UserShouldAdd(c, item, batch_size.val)
    ELSE Len(c) < batch_size.val

----------------------------------------------------------------------------
\* Construction

BatchSizeArgs ==
    [type : {"int"}, val : (-1)..MaxBatchSize]
    \cup [type : {"callable"}, val : {2}]
    \cup [type : {"other"}, val : {0}]
BpeArgs == {-1, 0, MaxBpe}

\* _make_combiner without the `batch_size <= 0` test
MakeCombinerErrorNoSignCheck(bs) ==
    IF bs.type = "callable" THEN "none"
    ELSE IF bs.type = "int" THEN "none"
    ELSE "TypeError"

\* _make_combiner: the error it raises, if any
MakeCombinerError(bs) ==
    IF bs.type = "callable" THEN "none"
    ELSE IF bs.type = "int" THEN (IF bs.val <= 0 THEN "ValueError" ELSE "none")
    ELSE "TypeError"

\* __init__: the error it raises, if any
InitError(bs, bpe) ==
    IF bpe <= 0 THEN "ValueError" ELSE MakeCombinerError(bs)

Init ==
    /\ obj = "new"
    /\ ctorError = "none"
    /\ batch_size = [type |-> "other", val |-> 0]
    /\ batches_per_epoch = 0
    /\ pipeline_active = FALSE
    /\ stop_event = FALSE
    /\ q = [s \in Stages |-> <<>>]
    /\ wpc = [w \in Workers |-> "none"]
    /\ held = [w \in Workers |-> None]
    /\ srcNext = 1
    /\ chunk = <<>>
    /\ processed = <<>>
    /\ shouldAddCalls = <<>>
    /\ emitted = <<>>
    /\ epochs = <<>>
    /\ yielded = <<>>
    /\ callerPc = "idle"
    /\ enterCount = 0
    /\ startedWorkers = 0
    /\ closeRaised = FALSE
    /\ fn = "none"
    /\ fnArgs = None
    /\ fnResult = None

pipeVars == <<pipeline_active, stop_event, q, wpc, held, chunk, processed, emitted, shouldAddCalls,
              yielded, enterCount, startedWorkers>>

\* Infinite.__init__(source, transformer, batch_size=bs, batches_per_epoch=bpe)
Construct(bs, bpe) ==
    /\ obj = "new"
    /\ ctorError' = InitError(bs, bpe)
    /\ obj' = IF InitError(bs, bpe) = "none" THEN "ok" ELSE "failed"
    /\ batch_size' = bs
    /\ batches_per_epoch' = bpe
    /\ UNCHANGED <<fnVars, pipeVars, srcNext, epochs, callerPc, closeRaised>>

----------------------------------------------------------------------------
\* The caller: entering, calling, iterating, closing, finalizing

AllExited == \A w \in Workers : wpc[w] \in {"none", "exited"}

\* Pipeline.__enter__: fresh queues and stop event, one thread per worker
EnterPipeline ==
    /\ pipeline_active' = TRUE
    /\ stop_event' = FALSE
    /\ q' = [s \in Stages |-> <<>>]
    /\ wpc' = [w \in Workers |-> IF w[1] = SourceStage THEN "put" ELSE "get"]
    /\ held' = [w \in Workers |-> None]
    /\ chunk' = <<>>
    /\ processed' = <<>>
    /\ shouldAddCalls' = <<>>
    /\ emitted' = <<>>
    /\ yielded' = <<>>
    /\ enterCount' = enterCount + 1
    /\ startedWorkers' = startedWorkers + Cardinality(Workers)

\* __call__ without the pipeline_active test
CallAlwaysEnters ==
    /\ obj = "ok"
    /\ callerPc = "idle"
    /\ Len(epochs) < MaxCalls
    /\ EnterPipeline
    /\ epochs' = Append(epochs, [count |-> 0, state |-> "live", hard |-> FALSE,
                                 run |-> enterCount'])
    /\ UNCHANGED <<fnVars, obj, ctorError, batch_size, batches_per_epoch, srcNext,
                   callerPc, closeRaised>>
\* Infinite.__call__: enter if the pipeline is not active, hand out islice(pipeline, n)
Call ==
    /\ obj = "ok"
    /\ callerPc = "idle"
    /\ Len(epochs) < MaxCalls
    /\ IF ~pipeline_active THEN EnterPipeline ELSE UNCHANGED pipeVars
    /\ epochs' = Append(epochs, [count |-> 0, state |-> "live", hard |-> FALSE,
                                 run |-> enterCount'])
    /\ UNCHANGED <<fnVars, obj, ctorError, batch_size, batches_per_epoch, srcNext,
                   callerPc, closeRaised>>

\* islice letting one batch too many through
EpochLimitPlusOne == batches_per_epoch + 1

\* islice(self.pipeline, n): the number of items it lets through
EpochLimit == batches_per_epoch

\* next() on the e-th epoch iterator
EpochNext(e) ==
    /\ obj \in {"ok", "finalized"}
    /\ callerPc = "idle"
    /\ epochs[e].state = "live"
    /\ IF ~pipeline_active \/ epochs[e].run # enterCount
       THEN /\ epochs' = [epochs EXCEPT ![e].state = "done", ![e].hard = TRUE]
            /\ UNCHANGED <<q, yielded>>
       ELSE /\ q[FinalStage] # <<>>
            /\ yielded' = Append(yielded, Head(q[FinalStage]))
            /\ q' = [q EXCEPT ![FinalStage] = Tail(@)]
            /\ epochs' = [epochs EXCEPT ![e].count = @ + 1,
                                        ![e].state = IF epochs[e].count + 1 >= EpochLimit
                                                     THEN "done" ELSE "live"]
    /\ UNCHANGED <<fnVars, obj, ctorError, batch_size, batches_per_epoch, pipeline_active,
                   stop_event, wpc, held, srcNext, chunk, processed, emitted, shouldAddCalls,
                   callerPc, enterCount, startedWorkers, closeRaised>>

\* Infinite.__exit__ -> Pipeline.__exit__: raise the stop signal and wait for the
\* workers if the pipeline is active, nothing otherwise
ExitPipeline ==
    IF pipeline_active
    THEN /\ stop_event' = TRUE
         /\ pipeline_active' = FALSE
         /\ callerPc' = "join"
    ELSE UNCHANGED <<stop_event, pipeline_active, callerPc>>

\* Infinite.close()
Close ==
    /\ obj = "ok"
    /\ callerPc = "idle"
    /\ ExitPipeline
    /\ UNCHANGED <<fnVars, obj, ctorError, batch_size, batches_per_epoch, q, wpc, held, srcNext,
                   chunk, processed, emitted, shouldAddCalls, epochs, yielded, enterCount,
                   startedWorkers, closeRaised>>

\* Infinite.__del__: close() on whatever __init__ left behind, after which the
\* object is gone. self.pipeline exists only once __init__ has run to its end, so
\* close() raises AttributeError on an object whose __init__ raised. On an active
\* pipeline the close() of __del__ is the Close step followed by JoinReturn; this
\* step is the rest of __del__, from a pipeline that is not active.
Finalize ==
    /\ obj \in {"ok", "failed"}
    /\ callerPc = "idle"
    /\ ~pipeline_active
    /\ closeRaised' = (closeRaised \/ obj = "failed")
    /\ obj' = "finalized"
    /\ UNCHANGED <<fnVars, ctorError, batch_size, batches_per_epoch, pipeline_active, stop_event,
                   q, wpc, held, srcNext, chunk, processed, emitted, shouldAddCalls, epochs, yielded,
                   callerPc, enterCount, startedWorkers>>

\* The join at the end of Pipeline.__exit__: returns once every worker has exited;
\* the queues and the locals of the worker threads are gone with them
JoinReturn ==
    /\ callerPc = "join"
    /\ AllExited
    /\ callerPc' = "idle"
    /\ q' = [s \in Stages |-> <<>>]
    /\ held' = [w \in Workers |-> None]
    /\ chunk' = <<>>
    /\ processed' = <<>>
    /\ shouldAddCalls' = <<>>
    /\ emitted' = <<>>
    /\ UNCHANGED <<fnVars, obj, ctorError, batch_size, batches_per_epoch, pipeline_active,
                   stop_event, wpc, srcNext, epochs, yielded, enterCount,
                   startedWorkers, closeRaised>>

----------------------------------------------------------------------------
\* The workers

callerVars == <<obj, ctorError, batch_size, batches_per_epoch, pipeline_active,
                stop_event, epochs, yielded, callerPc, enterCount, startedWorkers,
                closeRaised, fnVars>>

\* Every wait of a worker (on a queue that is empty or full) checks the stop
\* signal first, so a worker takes no further step once the signal is raised
Running(w) == wpc[w] \in {"get", "put"}

\* Source worker: put the next item of the source into its output queue
SourcePut(w) ==
    /\ w[1] = SourceStage
    /\ wpc[w] = "put"
    /\ ~stop_event
    /\ srcNext <= MaxItems
    /\ Len(q[SourceStage]) < Capacity(SourceStage)
    /\ q' = [q EXCEPT ![SourceStage] = Append(@, SourceItem(srcNext))]
    /\ srcNext' = srcNext + 1
    /\ UNCHANGED <<callerVars, wpc, held, chunk, processed, emitted, shouldAddCalls>>

\* One2One worker: take a value from the input queue
One2OneGet(w) ==
    /\ w[1] \in {TransformStage, FinalStage}
    /\ wpc[w] = "get"
    /\ ~stop_event
    /\ q[w[1] - 1] # <<>>
    /\ held' = [held EXCEPT ![w] = Head(q[w[1] - 1])]
    /\ q' = [q EXCEPT ![w[1] - 1] = Tail(@)]
    /\ wpc' = [wpc EXCEPT ![w] = "put"]
    /\ UNCHANGED <<callerVars, srcNext, chunk, processed, emitted, shouldAddCalls>>

\* One2One worker: put f(value) into the output queue, waiting while it is full
One2OnePut(w) ==
    /\ w[1] \in {TransformStage, FinalStage}
    /\ wpc[w] = "put"
    /\ ~stop_event
    /\ Len(q[w[1]]) < Capacity(w[1])
    /\ q' = [q EXCEPT ![w[1]] = Append(@, StageFn(w[1], held[w]))]
    /\ held' = [held EXCEPT ![w] = None]
    /\ wpc' = [wpc EXCEPT ![w] = "get"]
    /\ UNCHANGED <<callerVars, srcNext, chunk, processed, emitted, shouldAddCalls>>

\* Combiner worker (start_transformer): take an item from the input queue
CombinerGet(w) ==
    /\ w[1] = CombinerStage
    /\ wpc[w] = "get"
    /\ ~stop_event
    /\ q[TransformStage] # <<>>
    /\ held' = [held EXCEPT ![w] = Head(q[TransformStage])]
    /\ q' = [q EXCEPT ![TransformStage] = Tail(@)]
    /\ wpc' = [wpc EXCEPT ![w] = "put"]
    /\ UNCHANGED <<callerVars, srcNext, chunk, processed, emitted, shouldAddCalls>>

\* process_data with `chunk = []` in place of `chunk = [item]`
process_data_restarts_empty(w) ==
    /\ w[1] = CombinerStage
    /\ wpc[w] = "put"
    /\ ~stop_event
    /\ IF chunk = <<>> \/ should_add(chunk, held[w])
       THEN /\ chunk' = Append(chunk, held[w])
            /\ UNCHANGED <<q, emitted>>
       ELSE /\ Len(q[CombinerStage]) < Capacity(CombinerStage)
            /\ q' = [q EXCEPT ![CombinerStage] = Append(@, chunk)]
            /\ emitted' = Append(emitted, chunk)
            /\ chunk' = <<>>
    /\ processed' = Append(processed, held[w])
    /\ shouldAddCalls' = IF chunk = <<>> THEN shouldAddCalls
                         ELSE Append(shouldAddCalls, Len(chunk))
    /\ held' = [held EXCEPT ![w] = None]
    /\ wpc' = [wpc EXCEPT ![w] = "get"]
    /\ UNCHANGED <<callerVars, srcNext>>

\* process_data with the test written `should_add(chunk, item) or not chunk`
process_data_asks_first(w) ==
    /\ w[1] = CombinerStage
    /\ wpc[w] = "put"
    /\ ~stop_event
    /\ IF chunk = <<>> \/ should_add(chunk, held[w])
       THEN /\ chunk' = Append(chunk, held[w])
            /\ UNCHANGED <<q, emitted>>
       ELSE /\ Len(q[CombinerStage]) < Capacity(CombinerStage)
            /\ q' = [q EXCEPT ![CombinerStage] = Append(@, chunk)]
            /\ emitted' = Append(emitted, chunk)
            /\ chunk' = <<held[w]>>
    /\ processed' = Append(processed, held[w])
    /\ shouldAddCalls' = Append(shouldAddCalls, Len(chunk))
    /\ held' = [held EXCEPT ![w] = None]
    /\ wpc' = [wpc EXCEPT ![w] = "get"]
    /\ UNCHANGED <<callerVars, srcNext>>

\* Combiner worker: process_data(item)
process_data(w) ==
    /\ w[1] = CombinerStage
    /\ wpc[w] = "put"
    /\ ~stop_event
    /\ IF chunk = <<>> \/ should_add(chunk, held[w])
       THEN /\ chunk' = Append(chunk, held[w])
            /\ UNCHANGED <<q, emitted>>
       ELSE /\ Len(q[CombinerStage]) < Capacity(CombinerStage)
            /\ q' = [q EXCEPT ![CombinerStage] = Append(@, chunk)]
            /\ emitted' = Append(emitted, chunk)
            /\ chunk' = <<held[w]>>
    /\ processed' = Append(processed, held[w])
    /\ shouldAddCalls' = IF chunk = <<>> THEN shouldAddCalls
                         ELSE Append(shouldAddCalls, Len(chunk))
    /\ held' = [held EXCEPT ![w] = None]
    /\ wpc' = [wpc EXCEPT ![w] = "get"]
    /\ UNCHANGED <<callerVars, srcNext>>

\* A worker of a Source or One2One stage sees the stop signal in its wait and exits
WorkerStop(w) ==
    /\ w[1] # CombinerStage
    /\ Running(w)
    /\ stop_event
    /\ wpc' = [wpc EXCEPT ![w] = "exited"]
    /\ UNCHANGED <<callerVars, q, held, srcNext, chunk, processed, emitted, shouldAddCalls>>

\* The Combiner worker whose q_out.put(chunk) would wait without watching the
\* stop signal: it exits only from its wait on q_in
CombinerStopOnGetOnly(w) ==
    /\ w[1] = CombinerStage
    /\ wpc[w] = "get"
    /\ stop_event
    /\ wpc' = [wpc EXCEPT ![w] = "exited"]
    /\ UNCHANGED <<callerVars, q, held, srcNext, chunk, processed, emitted, shouldAddCalls>>

\* The Combiner worker, started with the pipeline's stop_event, sees it in its
\* wait on q_in or q_out and exits
CombinerStop(w) ==
    /\ w[1] = CombinerStage
    /\ Running(w)
    /\ stop_event
    /\ wpc' = [wpc EXCEPT ![w] = "exited"]
    /\ UNCHANGED <<callerVars, q, held, srcNext, chunk, processed, emitted, shouldAddCalls>>

WorkerStep(w) ==
    \/ SourcePut(w)
    \/ One2OneGet(w)
    \/ One2OnePut(w)
    \/ CombinerGet(w)
    \/ process_data(w)
    \/ WorkerStop(w)
    \/ CombinerStop(w)

Next ==
    \/ \E bs \in BatchSizeArgs, bpe \in BpeArgs : Construct(bs, bpe)
    \/ Call
    \/ \E e \in 1..Len(epochs) : EpochNext(e)
    \/ Close
    \/ Finalize
    \/ JoinReturn
    \/ \E w \in Workers : WorkerStep(w)

Spec == Init /\ [][Next]_vars

\* The same steps, followed for one __call__ fewer
NextFair == Next /\ Len(epochs') < MaxCalls

\* Every worker thread keeps being scheduled
FairSpec == Init /\ [][NextFair]_vars /\ \A w \in Workers : WF_vars(WorkerStep(w))

----------------------------------------------------------------------------
\* dpipe.medim.grid: boxes, patches and their recombination.  A shape, a start
\* and a stop are tuples with one entry per axis, axes being all the axes; a
\* box is <<start, stop>>; a one-dimensional array is the sequence of its values

\* What a call returns: its value, or the exception it raised
Returned(v) == [raised |-> "none", value |-> v]
Raised(e) == [raised |-> e, value |-> None]

\* Number of window positions along one axis, as after a convolution with this
\* kernel and stride: partial windows are left out when valid, counted when not
shape_after_convolution(extent, kernel_size, stride, valid) ==
    IF valid THEN (extent - kernel_size) \div stride + 1
    ELSE 1 - ((kernel_size - extent) \div stride)

shape_after_full_convolution(shape, kernel_size, stride, valid) ==
    [a \in 1..Len(shape) |->
        shape_after_convolution(shape[a], kernel_size[a], stride[a], valid)]

\* np.ndindex(*dims): the index tuples in row-major order
RECURSIVE ndindex(_)
ndindex(dims) ==
    IF dims = <<>> THEN << <<>> >>
    ELSE LET rest == ndindex(Tail(dims))
         IN  Concat([i \in 1..dims[1] |-> [j \in 1..Len(rest) |-> <<i - 1>> \o rest[j]]])

\* get_boxes(shape, box_size, stride, valid=valid), consumed into a list;
\* np.ndindex refuses a negative dimension
get_boxes(shape, box_size, stride, valid) ==
    LET final_shape == shape_after_full_convolution(shape, box_size, stride, valid)
    IN  IF \E a \in 1..Len(shape) : final_shape[a] < 0 THEN Raised("ValueError")
        ELSE LET idx == ndindex(final_shape)
                 start(i) == [a \in 1..Len(shape) |-> idx[i][a] * stride[a]]
             IN  Returned([i \in 1..Len(idx) |->
                     <<start(i),
                       [a \in 1..Len(shape) |-> Min(start(i)[a] + box_size[a], shape[a])]>>])

\* x[build_slices(*box)] for a one-dimensional x
Slice(x, box) == SubSeq(x, box[1][1] + 1, Min(box[2][1], Len(x)))

\* divide(x, patch_size, stride, valid=valid) for a one-dimensional x
divide(x, patch_size, stride, valid) ==
    LET boxes == get_boxes(<<Len(x)>>, <<patch_size>>, <<stride>>, valid)
    IN  IF boxes.raised # "none" THEN boxes
        ELSE Returned([i \in 1..Len(boxes.value) |-> Slice(x, boxes.value[i])])

\* peek(patches): the first patch, StopIteration when there is none
Peek(patches) ==
    IF patches = <<>> THEN Raised("StopIteration") ELSE Returned(patches[1])

\* One round of combine's loop that forgets `counts[slc] += 1`
AddPatchNoCount(acc, box, patch) ==
    LET lo == box[1][1] + 1
        hi == Min(box[2][1], Len(acc.result))
        n == Max(0, hi - lo + 1)
        at(i) == IF Len(patch) = n THEN patch[i - lo + 1] ELSE patch[1]
    IN  IF acc.raised # "none" THEN acc
        ELSE IF Len(patch) # n /\ Len(patch) # 1 THEN [acc EXCEPT !.raised = "ValueError"]
        ELSE [acc EXCEPT
                !.result = [i \in 1..Len(acc.result) |->
                               IF lo <= i /\ i <= hi THEN acc.result[i] + at(i)
                               ELSE acc.result[i]]]

\* One round of combine's loop: result[slc] += patch; counts[slc] += 1.  numpy
\* adds a patch of the slice's length, spreads a patch of length one over the
\* slice, and refuses any other patch
AddPatch(acc, box, patch) ==
    LET lo == box[1][1] + 1
        hi == Min(box[2][1], Len(acc.result))
        n == Max(0, hi - lo + 1)
        at(i) == IF Len(patch) = n THEN patch[i - lo + 1] ELSE patch[1]
    IN  IF acc.raised # "none" THEN acc
        ELSE IF Len(patch) # n /\ Len(patch) # 1 THEN [acc EXCEPT !.raised = "ValueError"]
        ELSE [acc EXCEPT
                !.result = [i \in 1..Len(acc.result) |->
                               IF lo <= i /\ i <= hi THEN acc.result[i] + at(i)
                               ELSE acc.result[i]],
                !.counts = [i \in 1..Len(acc.counts) |->
                               IF lo <= i /\ i <= hi THEN acc.counts[i] + 1
                               ELSE acc.counts[i]]]

\* The loop of combine over the pairs (box, patch)
RECURSIVE Accumulate(_, _)
Accumulate(pairs, acc) ==
    IF pairs = <<>> THEN acc
    ELSE Accumulate(Tail(pairs), AddPatch(acc, Head(pairs)[1], Head(pairs)[2]))

\* combine(patches, output_shape, stride) for one-dimensional patches; patches is
\* what iterating the argument gives, stride is None or a tuple.  An entry of the
\* returned array is <<sum, count>>, standing for the quotient sum / count
combine(patches, output_shape, stride) ==
    IF patches.raised # "none" THEN patches
    ELSE IF Peek(patches.value).raised # "none" THEN Peek(patches.value)
    ELSE
        LET patch == Peek(patches.value).value
            patch_shape == <<Len(patch)>>
            the_stride == IF stride = None THEN patch_shape ELSE stride
            boxes == get_boxes(output_shape, patch_shape, the_stride, FALSE)
            zipped == <<boxes.value, patches.value>>
            zeros == [i \in 1..output_shape[1] |-> 0]
            acc == Accumulate(Zip(zipped),
                              [result |-> zeros, counts |-> zeros, raised |-> "none"])
        IN  IF boxes.raised # "none" THEN boxes
            ELSE IF acc.raised # "none" THEN Raised(acc.raised)
            ELSE IF ZipEqualRaises(zipped) THEN Raised("ValueError")
            ELSE Returned([i \in 1..output_shape[1] |->
                              <<acc.result[i], Max(1, acc.counts[i])>>])

----------------------------------------------------------------------------
\* dpipe.predict.shape.patches_grid

\* The model applied to a patch: one prediction per entry of the patch
Predict(patch) == [i \in 1..Len(patch) |-> patch[i] + 1]

\* The extent padded to, were it the next multiple of stride
NewShapeMultipleOfStride(extent, patch_size, stride) ==
    extent + ((stride - extent) % stride)

\* new_shape = shape + (stride - shape + patch_size) % stride
NewShape(extent, patch_size, stride) ==
    extent + ((stride - extent + patch_size) % stride)

\* pad_to_shape(x, new_shape, axes, padding_values, ratio) with ratio = 0.5: the
\* missing entries are split between the two ends
pad_to_shape(x, new_shape, padding_values) ==
    LET delta == new_shape - Len(x)
        left == delta \div 2
    IN  [i \in 1..new_shape |->
            IF left < i /\ i <= left + Len(x) THEN x[i - left] ELSE padding_values]

\* crop_to_shape(x, shape, axes, ratio) with ratio = 0.5: the entries in excess
\* are removed from the two ends, as many on the left as pad_to_shape added
crop_to_shape(x, extent) ==
    LET left == (Len(x) - extent) \div 2
    IN  SubSeq(x, left + 1, left + extent)

\* patches_grid(patch_size, stride, padding_values=...)(predict)(x) for a
\* one-dimensional x; padded is true when padding_values is not None.  Besides
\* the outcome, the record keeps the array that was divided and the patches
\* that were handed to predict
patches_grid(x, patch_size, stride, padded) ==
    LET new_shape == NewShape(Len(x), patch_size, stride)
        input == IF padded THEN pad_to_shape(x, new_shape, 0) ELSE x
        patches == divide(input, patch_size, stride, FALSE)
        predicted == IF patches.raised # "none" THEN patches
                     ELSE Returned([i \in 1..Len(patches.value) |->
                                       Predict(patches.value[i])])
        prediction == combine(predicted, <<Len(input)>>, <<stride>>)
    IN  [raised |-> prediction.raised,
         value |-> IF prediction.raised # "none" THEN None
                   ELSE IF padded THEN crop_to_shape(prediction.value, Len(x))
                   ELSE prediction.value,
         divided |-> input,
         handed |-> patches.value]

----------------------------------------------------------------------------
\* Direct calls of these functions, one at a time

MaxExtent == 10      \* largest extent of an array along an axis
MaxPatch == 4        \* largest patch_size / box_size
MaxStride == 4       \* largest stride
MaxPatches == 5      \* largest number of patches handed to combine
MaxTuples == 3       \* longest list handed to combine_batches
MaxArity == 2        \* largest arity of a tuple handed to combine_batches

Values == {1, 2}
Dims == {1, 2}

Broadcast(v, n) == [a \in 1..n |-> v]
Shapes == UNION {[1..n -> 1..MaxExtent] : n \in Dims}
Arrays == UNION {[1..n -> Values] : n \in 1..MaxExtent}
Strides == {None} \cup {<<st>> : st \in 1..MaxStride}

\* n patches of ones, each of length p but the last, of length r
PatchList(n, p, r) == [i \in 1..n |-> [j \in 1..(IF i = n THEN r ELSE p) |-> 1]]

Tuples == UNION {[1..a -> Values] : a \in 0..MaxArity}
TupleLists == UNION {[1..n -> Tuples] : n \in 0..MaxTuples}

progVars == <<obj, ctorError, batch_size, batches_per_epoch, pipeline_active, stop_event,
              q, wpc, held, srcNext, chunk, processed, emitted, shouldAddCalls, epochs, yielded,
              callerPc, enterCount, startedWorkers, closeRaised>>

\* A call starts when no call is under way
Idle == fn = "none"

\* list(get_boxes(shape, box_size, stride, valid=valid))
CallGetBoxes(shape, box_size, stride, valid) ==
    /\ Idle
    /\ fn' = "get_boxes"
    /\ fnArgs' = [shape |-> shape, box_size |-> box_size, stride |-> stride,
                  valid |-> valid]
    /\ fnResult' = get_boxes(shape, Broadcast(box_size, Len(shape)),
                             Broadcast(stride, Len(shape)), valid)
    /\ UNCHANGED progVars

\* combine(patches, output_shape, stride)
CallCombine(patches, output_shape, stride) ==
    /\ Idle
    /\ fn' = "combine"
    /\ fnArgs' = [patches |-> patches, output_shape |-> output_shape, stride |-> stride]
    /\ fnResult' = combine(Returned(patches), output_shape, stride)
    /\ UNCHANGED progVars

\* combine(divide(x, patch_size, stride), x.shape, combine_stride)
CallDivideCombine(x, patch_size, stride, combine_stride) ==
    /\ Idle
    /\ fn' = "divide_combine"
    /\ fnArgs' = [x |-> x, patch_size |-> patch_size, stride |-> stride,
                  combine_stride |-> combine_stride]
    /\ fnResult' = combine(divide(x, patch_size, stride, FALSE), <<Len(x)>>,
                           combine_stride)
    /\ UNCHANGED progVars

\* patches_grid(patch_size, stride, padding_values=...)(Predict)(x)
CallPatchesGrid(x, patch_size, stride, padded) ==
    /\ Idle
    /\ fn' = "patches_grid"
    /\ fnArgs' = [x |-> x, patch_size |-> patch_size, stride |-> stride,
                  padded |-> padded]
    /\ fnResult' = patches_grid(x, patch_size, stride, padded)
    /\ UNCHANGED progVars

\* combine_batches(inputs)
CallCombineBatches(inputs) ==
    /\ Idle
    /\ fn' = "combine_batches"
    /\ fnArgs' = [inputs |-> inputs]
    /\ fnResult' = IF ZipEqualRaises(inputs) THEN Raised("ValueError")
                   ELSE Returned(combine_batches(inputs))
    /\ UNCHANGED progVars

\* The call is over
FnReturn ==
    /\ fn # "none"
    /\ fn' = "none"
    /\ fnArgs' = None
    /\ fnResult' = None
    /\ UNCHANGED progVars

FnNext ==
    \/ Idle /\ \E shape \in Shapes, box_size \in 1..MaxPatch, stride \in 1..MaxStride,
                  valid \in BOOLEAN : CallGetBoxes(shape, box_size, stride, valid)
    \/ Idle /\ \E n \in 0..MaxPatches, p \in 1..MaxPatch, output_shape \in 1..MaxExtent,
                  stride \in Strides :
                  \E r \in 1..p : CallCombine(PatchList(n, p, r), <<output_shape>>, stride)
    \/ Idle /\ \E x \in Arrays, patch_size \in 1..MaxPatch, stride \in 1..MaxStride :
                  \E combine_stride \in {None, <<stride>>} :
                      CallDivideCombine(x, patch_size, stride, combine_stride)
    \/ Idle /\ \E x \in Arrays, patch_size \in 1..MaxPatch, stride \in 1..MaxStride,
                  padded \in BOOLEAN : CallPatchesGrid(x, patch_size, stride, padded)
    \/ Idle /\ \E inputs \in TupleLists : CallCombineBatches(inputs)
    \/ FnReturn

FnSpec == Init /\ [][FnNext]_vars

----------------------------------------------------------------------------
\* Helpers for the properties

\* Stream positions of a sequence of items
Positions(items) == [i \in 1..Len(items) |-> items[i][1]]

\* Stream positions of the items of a sequence of batches (position-major tuples)
BatchPositions(batches) == Concat([i \in 1..Len(batches) |-> batches[i][1]])

StrictlyIncreasing(ns) == \A i \in 1..(Len(ns) - 1) : ns[i] < ns[i + 1]

TheCombiner == <<CombinerStage, 1>>

----------------------------------------------------------------------------
\* C1: an epoch iterator never yields more than batches_per_epoch batches, is
\* live exactly while it has yielded fewer, and once terminated has yielded
\* exactly batches_per_epoch unless it was cut short, which happens only when
\* the pipeline it was drawn from has been closed.
C1_EpochYieldsExactly ==
    \A e \in 1..Len(epochs) :
        /\ epochs[e].count <= batches_per_epoch
        /\ (epochs[e].state = "live" => epochs[e].count < batches_per_epoch)
        /\ (epochs[e].state = "done" =>
                epochs[e].count = batches_per_epoch \/ epochs[e].hard)
        /\ (epochs[e].hard => ~pipeline_active \/ epochs[e].run < enterCount)

C1_Witness ==
    \E e \in 1..Len(epochs) :
        /\ epochs[e].state = "done"
        /\ ~epochs[e].hard
        /\ epochs[e].count = batches_per_epoch
        /\ batches_per_epoch = MaxBpe

\* C2: while the pipeline has been entered once, the items of the batches
\* yielded so far are the first items of the source stream, in order, without
\* gap or repetition; and when the epochs drawn from it (two of them, say) have
\* all terminated normally, that many times batches_per_epoch batches have been
\* yielded in total.
C2_TwoEpochsContiguous ==
    enterCount = 1 =>
        /\ \A i \in 1..Len(BatchPositions(yielded)) : BatchPositions(yielded)[i] = i
        /\ (\A e \in 1..Len(epochs) : epochs[e].state = "done" /\ ~epochs[e].hard)
           => Len(yielded) = Len(epochs) * batches_per_epoch

C2_Witness ==
    /\ enterCount = 1
    /\ Len(epochs) = 2
    /\ \A e \in 1..2 : epochs[e].state = "done" /\ ~epochs[e].hard
    /\ Len(yielded) = 2 * MaxBpe
    /\ Len(BatchPositions(yielded)) >= 2 * MaxBpe

BadConfig ==
    \/ batches_per_epoch <= 0
    \/ batch_size.type = "int" /\ batch_size.val <= 0
    \/ batch_size.type \notin {"int", "callable"}

C4_ConfigErrorsAtConstruction ==
    (obj # "new" /\ BadConfig) =>
        /\ ctorError \in {"ValueError", "TypeError"}
        /\ enterCount = 0
        /\ startedWorkers = 0
        /\ \A w \in Workers : wpc[w] = "none"
        /\ epochs = <<>>

C4_Witness ==
    /\ obj = "failed"
    /\ batches_per_epoch > 0
    /\ batch_size = [type |-> "int", val |-> 0]
    /\ ctorError = "ValueError"

\* C5: close() never raises, whatever the lifecycle state of the instance it is
\* called on (finalization included), and once it has returned no worker runs.
C5_CloseNeverRaises ==
    /\ ~closeRaised
    /\ (callerPc = "idle" /\ ~pipeline_active => AllExited)

\* C6: once the stop signal is raised, every worker of every stage eventually
\* exits, wherever it was waiting, the Combiner worker waiting to emit a chunk
\* into its full output queue included.
C6_StopLeadsToExit == stop_event ~> AllExited

C6_Witness ==
    /\ stop_event
    /\ AllExited
    /\ wpc[TheCombiner] = "exited"
    /\ held[TheCombiner] # None
    /\ chunk # <<>>
    /\ ~should_add(chunk, held[TheCombiner])
    /\ Len(q[CombinerStage]) = 1
    /\ Len(q[SourceStage]) = buffer_size

\* C7: every queue holds at most its capacity: buffer_size for the output queues
\* of the source, the transformer and the final combine stage, 1 for the output
\* queue of the Combiner.
C7_QueuesWithinCapacity ==
    /\ Len(q[SourceStage]) <= buffer_size
    /\ Len(q[TransformStage]) <= buffer_size
    /\ Len(q[CombinerStage]) <= 1
    /\ Len(q[FinalStage]) <= buffer_size

\* The final stage's queue is full with its worker waiting to put, and the
\* Combiner waits to emit into its own full queue
C7_Witness ==
    /\ Len(q[FinalStage]) = buffer_size
    /\ wpc[<<FinalStage, 1>>] = "put"
    /\ Len(q[CombinerStage]) = 1
    /\ wpc[TheCombiner] = "put"
    /\ chunk # <<>>
    /\ ~should_add(chunk, held[TheCombiner])
    /\ ~stop_event

IntBatchSize == obj = "ok" /\ batch_size.type = "int"

\* C8 as stated: with an integer batch_size = k, after n items have been
\* processed the Combiner has emitted floor(n / k) chunks.
C8_EmitsAtKthItem ==
    IntBatchSize => Len(emitted) = Len(processed) \div batch_size.val

\* C8 as amended: with an integer batch_size = k, a chunk is emitted as part of
\* processing the item that arrives when the in-progress chunk already holds k
\* items, so after n >= 1 items exactly floor((n - 1) / k) chunks have been
\* emitted and the in-progress chunk holds the other n - k * floor((n - 1) / k),
\* between 1 and k, items.
C8_EmitsOnNextItem ==
    IntBatchSize =>
        /\ Len(emitted) = IF processed = <<>> THEN 0
                          ELSE (Len(processed) - 1) \div batch_size.val
        /\ Len(chunk) = Len(processed) - batch_size.val * Len(emitted)
        /\ processed # <<>> => Len(chunk) \in 1..batch_size.val

C8_Witness ==
    /\ IntBatchSize
    /\ batch_size.val = MaxBatchSize
    /\ Len(processed) = 2 * batch_size.val
    /\ Len(emitted) = 1
    /\ Len(chunk) = batch_size.val

\* C9: with an integer batch_size = k, the i-th chunk emitted holds exactly the
\* processed items (i-1)*k+1 .. i*k, in order; the items after the last full
\* group are in no emitted chunk.
C9_EmittedChunksExact ==
    IntBatchSize =>
        /\ \A i \in 1..Len(emitted) :
               /\ Len(emitted[i]) = batch_size.val
               /\ \A j \in 1..Len(emitted[i]) :
                      /\ (i - 1) * batch_size.val + j <= Len(processed)
                      /\ emitted[i][j] = processed[(i - 1) * batch_size.val + j]
        /\ Len(emitted) <= Len(processed) \div batch_size.val

\* k = 3 and items 1..7: [1,2,3] and [4,5,6] emitted, 7 left in the chunk
C9_Witness ==
    /\ IntBatchSize
    /\ batch_size.val = 3
    /\ Positions(processed) = <<1, 2, 3, 4, 5, 6, 7>>
    /\ Len(emitted) = 2
    /\ Positions(emitted[1]) = <<1, 2, 3>>
    /\ Positions(emitted[2]) = <<4, 5, 6>>
    /\ Positions(chunk) = <<7>>

\* C10: for an integer or a predicate batch_size, the chunks emitted so far
\* followed by the in-progress chunk are the items processed so far, in order;
\* and the chunks waiting in the Combiner's output queue are the last chunks
\* emitted, unchanged.
C10_ChunksPartitionProcessed ==
    /\ Concat(emitted) \o chunk = processed
    /\ Len(q[CombinerStage]) <= Len(emitted)
    /\ \A i \in 1..Len(q[CombinerStage]) :
           q[CombinerStage][i] = emitted[Len(emitted) - Len(q[CombinerStage]) + i]

C10_Witness ==
    /\ batch_size.type = "callable"
    /\ Len(emitted) >= 2
    /\ Len(emitted[1]) # Len(emitted[2])
    /\ chunk # <<>>
    /\ Len(q[CombinerStage]) = 1

----------------------------------------------------------------------------
\* Properties of the directly called functions

\* The boxes combine pairs with the patches: get_boxes over output_shape with
\* the first patch's shape as box size and, by default, as stride
CombineBoxes(patches, output_shape, stride) ==
    get_boxes(output_shape, <<Len(patches[1])>>,
              IF stride = None THEN <<Len(patches[1])>> ELSE stride, FALSE)

\* C11: combine returns a result only when the patches are exactly as many as
\* the boxes get_boxes generates for output_shape; with any other number of
\* patches (none, too few, too many) the call raises.
C11_CombineCountMismatchFails ==
    (fn = "combine" /\ fnResult.raised = "none") =>
        /\ fnArgs.patches # <<>>
        /\ CombineBoxes(fnArgs.patches, fnArgs.output_shape, fnArgs.stride).raised = "none"
        /\ Len(CombineBoxes(fnArgs.patches, fnArgs.output_shape, fnArgs.stride).value)
               = Len(fnArgs.patches)

\* One patch too many, every box having received a patch of its own extent
C11_Witness ==
    /\ fn = "combine"
    /\ fnArgs.patches # <<>>
    /\ fnResult.raised = "ValueError"
    /\ LET boxes == CombineBoxes(fnArgs.patches, fnArgs.output_shape, fnArgs.stride)
       IN  /\ boxes.raised = "none"
           /\ Len(boxes.value) >= 2
           /\ Len(fnArgs.patches) = Len(boxes.value) + 1
           /\ \A i \in 1..Len(boxes.value) :
                  Len(fnArgs.patches[i]) = boxes.value[i][2][1] - boxes.value[i][1][1]

\* One patch too few, likewise
C11_WitnessTooFew ==
    /\ fn = "combine"
    /\ fnArgs.patches # <<>>
    /\ fnResult.raised = "ValueError"
    /\ LET boxes == CombineBoxes(fnArgs.patches, fnArgs.output_shape, fnArgs.stride)
       IN  /\ boxes.raised = "none"
           /\ Len(fnArgs.patches) = Len(boxes.value) - 1
           /\ \A i \in 1..Len(fnArgs.patches) :
                  Len(fnArgs.patches[i]) = boxes.value[i][2][1] - boxes.value[i][1][1]

\* As many patches as boxes: a result
C11_WitnessReturns ==
    /\ fn = "combine"
    /\ fnResult.raised = "none"
    /\ Len(fnArgs.patches) >= 3

\* Number of patches of divide(x, patch_size, stride) that cover entry i of x
CoverCount(x, patch_size, stride, i) ==
    LET boxes == get_boxes(<<Len(x)>>, <<patch_size>>, <<stride>>, FALSE).value
    IN  Cardinality({b \in 1..Len(boxes) : boxes[b][1][1] < i /\ i <= boxes[b][2][1]})

\* The array of x's shape that holds x where one patch covers the entry, the
\* average of the covering patches' values (each of them x there) where several
\* do, and zero where none does
Reconstructs(out, x, patch_size, stride) ==
    /\ out.raised = "none"
    /\ Len(out.value) = Len(x)
    /\ \A i \in 1..Len(x) :
           LET c == CoverCount(x, patch_size, stride, i)
           IN  out.value[i] = <<c * x[i], Max(1, c)>>

\* C12 as stated: with overlapping patches (stride < patch_size <= len(x)),
\* combine given only the patches and the output shape reconstructs x, averaging
\* where patches overlap.
C12_CombineWithoutStride ==
    (/\ fn = "divide_combine"
     /\ fnArgs.combine_stride = None
     /\ fnArgs.stride < fnArgs.patch_size
     /\ fnArgs.patch_size <= Len(fnArgs.x))
        => Reconstructs(fnResult, fnArgs.x, fnArgs.patch_size, fnArgs.stride)

\* C12, amended: combine given the patches, the output shape and the stride of
\* the division reconstructs x (len(x) >= patch_size): x where exactly one patch
\* covers the entry, the average of the covering patches' values where two do.
C12_CombineWithStride ==
    (/\ fn = "divide_combine"
     /\ fnArgs.combine_stride = <<fnArgs.stride>>
     /\ fnArgs.patch_size <= Len(fnArgs.x))
        => Reconstructs(fnResult, fnArgs.x, fnArgs.patch_size, fnArgs.stride)

\* Length 10, patch_size 4, stride 2: entries 1, 2 covered once, entry 3 twice
C12_Witness ==
    /\ fn = "divide_combine"
    /\ fnArgs.combine_stride = <<2>>
    /\ fnArgs.stride = 2
    /\ fnArgs.patch_size = 4
    /\ Len(fnArgs.x) = 10
    /\ fnArgs.x[1] # fnArgs.x[3]
    /\ fnResult.raised = "none"
    /\ fnResult.value[1] = <<fnArgs.x[1], 1>>
    /\ fnResult.value[3] = <<2 * fnArgs.x[3], 2>>
    /\ fnResult.value[10][2] = 1

\* The starts of the boxes along axis a
StartsAlong(boxes, a) == {boxes[i][1][a] : i \in 1..Len(boxes)}

\* C13: the starts of the boxes of get_boxes are the successive multiples of
\* stride along each axis; with valid=True every box has the full box_size; with
\* valid=False the boxes of valid=True are all yielded and any further box is the
\* last along its axis and stops at the array boundary; and every yielded box
\* satisfies start < stop <= shape along each axis.
C13_BoxesWithinShape ==
    (fn = "get_boxes" /\ fnResult.raised = "none") =>
        LET boxes == fnResult.value
            shape == fnArgs.shape
            axes == 1..Len(shape)
            whenValid == get_boxes(shape, Broadcast(fnArgs.box_size, Len(shape)),
                                   Broadcast(fnArgs.stride, Len(shape)), TRUE)
        IN  /\ \A a \in axes : \A s \in StartsAlong(boxes, a) :
                   /\ s % fnArgs.stride = 0
                   /\ s \div fnArgs.stride < Cardinality(StartsAlong(boxes, a))
            /\ \A i \in 1..Len(boxes) : \A a \in axes :
                   /\ boxes[i][1][a] < boxes[i][2][a]
                   /\ boxes[i][2][a] <= shape[a]
            /\ fnArgs.valid =>
                   \A i \in 1..Len(boxes) : \A a \in axes :
                       boxes[i][2][a] - boxes[i][1][a] = fnArgs.box_size
            /\ (~fnArgs.valid /\ whenValid.raised = "none") =>
                   /\ \A j \in 1..Len(whenValid.value) :
                          \E i \in 1..Len(boxes) : boxes[i] = whenValid.value[j]
                   /\ \A i \in 1..Len(boxes) : \A a \in axes :
                          \/ boxes[i][2][a] - boxes[i][1][a] = fnArgs.box_size
                          \/ /\ boxes[i][2][a] = shape[a]
                             /\ \A s \in StartsAlong(boxes, a) : s <= boxes[i][1][a]

\* The tuples of inputs all have arity n
EqualArity(inputs, n) == \A i \in 1..Len(inputs) : Len(inputs[i]) = n

\* combine_batches fails on tuples that differ in arity and returns the empty
\* tuple for the empty list
CombineBatchesEdges ==
    /\ (fnArgs.inputs # <<>> /\ ~EqualArity(fnArgs.inputs, Len(fnArgs.inputs[1])))
           => fnResult.raised = "ValueError"
    /\ fnArgs.inputs = <<>> => fnResult = Returned(<<>>)

\* C14 as stated: for a non-empty list items of equal-arity tuples,
\* combine_batches(list(zip(*combine_batches(items)))) is items again;
\* combine_batches fails when the tuples differ in arity and returns the empty
\* tuple for the empty list.
C14_RoundTripToItems ==
    fn = "combine_batches" =>
        /\ (fnArgs.inputs # <<>> /\ EqualArity(fnArgs.inputs, Len(fnArgs.inputs[1]))) =>
               /\ fnResult.raised = "none"
               /\ combine_batches(Zip(fnResult.value)) = fnArgs.inputs
        /\ CombineBatchesEdges

\* C14, amended: for a non-empty list items of equal-arity tuples of arity at
\* least one, list(zip(*combine_batches(items))) is items again, and
\* combine_batches of it is combine_batches(items) again; combine_batches fails
\* when the tuples differ in arity and returns the empty tuple for the empty list.
C14_ZipUndoesCombineBatches ==
    fn = "combine_batches" =>
        /\ (/\ fnArgs.inputs # <<>>
            /\ Len(fnArgs.inputs[1]) >= 1
            /\ EqualArity(fnArgs.inputs, Len(fnArgs.inputs[1]))) =>
               /\ fnResult.raised = "none"
               /\ Zip(fnResult.value) = fnArgs.inputs
               /\ combine_batches(Zip(fnResult.value)) = fnResult.value
        /\ CombineBatchesEdges

\* Three pairs: combine_batches gives two triples, zip gives the three pairs back
C14_Witness ==
    /\ fn = "combine_batches"
    /\ Len(fnArgs.inputs) = 3
    /\ EqualArity(fnArgs.inputs, 2)
    /\ fnArgs.inputs[1] # fnArgs.inputs[2]
    /\ fnResult.raised = "none"
    /\ Len(fnResult.value) = 2
    /\ Zip(fnResult.value) = fnArgs.inputs

\* Every patch handed to predict has the full patch_size
AllFull(handed, patch_size) == \A i \in 1..Len(handed) : Len(handed[i]) = patch_size

C15_WitnessTooShort ==
    /\ fn = "patches_grid"
    /\ fnArgs.padded
    /\ Len(fnArgs.x) = 2
    /\ fnArgs.patch_size = 4
    /\ fnArgs.stride = 2
    /\ Len(fnResult.divided) = 2
    /\ fnResult.raised # "none"

----------------------------------------------------------------------------
\* Properties of the Combiner and of __call__ (continued)

\* A step in which the Combiner completes process_data for one more item
ProcessesItem == Len(processed') = Len(processed) + 1

\* C16: with a predicate batch_size, an item that finds the in-progress chunk
\* empty is appended without a call of the predicate; any other item causes
\* exactly one call, with the non-empty chunk, and is appended with nothing
\* emitted if the predicate approves, while otherwise the chunk is emitted
\* downstream and the in-progress chunk becomes [item]; and every emitted chunk
\* is non-empty.
C16_PredicateCombinerStep ==
    /\ [](batch_size.type = "callable" => \A i \in 1..Len(emitted) : emitted[i] # <<>>)
    /\ [][(batch_size.type = "callable" /\ ProcessesItem) =>
            LET item == processed'[Len(processed')]
            IN  IF chunk = <<>>
                THEN /\ shouldAddCalls' = shouldAddCalls
                     /\ chunk' = <<item>>
                     /\ UNCHANGED <<emitted, q>>
                ELSE /\ shouldAddCalls' = Append(shouldAddCalls, Len(chunk))
                     /\ IF UserShouldAdd(chunk, item, batch_size.val)
                        THEN /\ chunk' = Append(chunk, item)
                             /\ UNCHANGED <<emitted, q>>
                        ELSE /\ emitted' = Append(emitted, chunk)
                             /\ q'[CombinerStage] = Append(q[CombinerStage], chunk)
                             /\ chunk' = <<item>>]_vars

\* The predicate was asked about every item but the first, approved some and
\* refused others
C16_Witness ==
    /\ batch_size.type = "callable"
    /\ Len(processed) >= 5
    /\ Len(shouldAddCalls) = Len(processed) - 1
    /\ Len(emitted) >= 2
    /\ Len(emitted[2]) >= 2
    /\ chunk # <<>>

\* Every worker thread of the pipeline is running
WorkersAlive == \A w \in Workers : Running(w)

\* C17: nothing runs in the background before the first call; the pipeline is
\* entered only by a call that finds it not active, so at most once between
\* closes however many epochs are requested; and while it is active all its
\* workers are alive, between epochs too, until close/exit raises the stop signal.
C17_EnteredLazilyAndOnce ==
    /\ [](epochs = <<>> => (enterCount = 0 /\ startedWorkers = 0 /\ ~pipeline_active))
    /\ [](pipeline_active => WorkersAlive)
    /\ [][/\ enterCount' # enterCount =>
                /\ ~pipeline_active
                /\ pipeline_active'
                /\ Len(epochs') = Len(epochs) + 1
                /\ enterCount' = enterCount + 1
                /\ startedWorkers' = startedWorkers + Cardinality(Workers)
          /\ (pipeline_active /\ ~pipeline_active') =>
                /\ stop_event'
                /\ callerPc' = "join"]_vars

\* A second epoch under way on the pipeline entered for the first, which is over
C17_Witness ==
    /\ Len(epochs) = 2
    /\ enterCount = 1
    /\ startedWorkers = Cardinality(Workers)
    /\ pipeline_active
    /\ WorkersAlive
    /\ epochs[1].state = "done"
    /\ ~epochs[1].hard
    /\ epochs[2].count >= 1

====
